---- MODULE Spec2Model ----
(***************************************************************************)
(* prism-samplernn: the generation loop of generate.py                     *)
(* (generate_and_save_samples, load_seed_audio) and the training driver of *)
(* train.py (main, get_arguments) as state machines.                       *)
(*                                                                         *)
(* The neural tiers are opaque: a tier invocation is an event, the logits  *)
(* it returns are unknown, so a categorical draw is any level in           *)
(* 0..q_levels-1.  A recurrent state is the sequence of inputs absorbed    *)
(* since the last zeroing; the zero state is the empty sequence.           *)
(*                                                                         *)
(* train.py reads three globals it binds nowhere: SAMPLE_SIZE (line 58),   *)
(* seq_len (line 165) and batch_size (line 179).  Reading an unbound name  *)
(* raises NameError and ends the run, so every run of train.py ends in     *)
(* get_arguments at line 58: the training machine is that one step, and    *)
(* the chunks, steps and checkpoints of main's loop stay as they start.    *)
(***************************************************************************)
EXTENDS Integers, Sequences, FiniteSets, TLC

VARIABLES
    prog,               \* "generate" or "train": which script runs
    \* ---- generate.py ----
    gpc,                \* position in generate_and_save_samples
    model,              \* the SampleRNN instance: frame_size, big_frame_size, batch_size, q_levels
    dur, sample_rate,   \* --dur, --sample_rate
    seed, seed_offset,  \* --seed (whether given, and the decoded audio of the file), --seed_offset
    samples,            \* samples[b][p+1]: the int32 buffer, batch item b, position p
    t,                  \* the loop variable of line 70
    big_frame_outputs,  \* what line 73 cached: the timestep it was computed at, or Unset
    frame_outputs,      \* what line 81 cached: the timestep it was computed at, or Unset
    generated,          \* the categorical draw of line 92, one level per batch item
    gtrace,             \* the tier invocations and buffer writes so far, in order
    files,              \* files[b]: the waveform written for batch item b, or NotWritten
    ghidden,            \* the inference model's recurrent state, per recurrent tier
    greads,             \* the conditioning reads so far: tier, timestep, slice, cache read
    twin_agrees,        \* whether a second run on the same inputs has drawn the same levels so far
    \* ---- train.py ----
    tpc,                \* position in main
    args,               \* the command line: frame_sizes, seq_len, num_steps, checkpoint_every
    dataset,            \* the batches behind --data_dir: num_samps of each
    yielded,            \* every (seqs, reset) pair train_iter has yielded, in order
    ttrace,             \* the train_step and reset_hidden_states calls made, in order,
                        \* each with the batch and the start of the chunk it is for
    saved               \* the steps whose iteration saved a checkpoint

gvars == <<gpc, model, dur, sample_rate, seed, seed_offset, samples, t,
           big_frame_outputs, frame_outputs, generated, gtrace, files, ghidden,
           greads, twin_agrees>>
tvars == <<tpc, args, dataset, yielded, ttrace, saved>>
vars == <<prog, gvars, tvars>>

----------------------------------------------------------------------------
(* Program constants *)

\* train.py line 35: the default of --checkpoint_every
CHECKPOINT_EVERY == 5

(* Bounds of the model *)

MaxDur == 2             \* --dur in 1..MaxDur
MaxSeedLen == 3         \* seed files hold 0..MaxSeedLen samples
MaxBatches == 2         \* the dataset yields 0..MaxBatches batches
MaxSamps == 5           \* a batch holds 0..MaxSamps samples per item
MaxSeqLen == 4          \* --seq_len in 1..MaxSeqLen

\* --sample_rate, check_positive
SampleRates == {1, 2}
\* the frame_sizes of a trained configuration: ascending, the first divides the second
GenFrameSizes == {<<1, 2>>, <<2, 4>>, <<1, 3>>}
\* <<--num_seqs, q_levels of the configuration>>
BatchAndLevels == {<<1, 3>>, <<2, 2>>}
\* --seed_offset, any integer
SeedOffsets == -4..2
\* amplitudes of decoded audio, in units of 1/AmpRes
AmpRes == 1
\* --frame_sizes, two naturals
TrainFrameSizes == 0..4
\* --num_steps
NumSteps == {1, 3}
\* --checkpoint_every
CheckpointEverys == {1, CHECKPOINT_EVERY}

\* --seed absent
NoSeed == [given |-> FALSE, audio |-> <<>>]
\* a cache no tier has filled yet
Unset == -1
\* no file written yet
NotWritten == <<>>
\* values of the script that does not run
NoModel == [frame_size |-> 0, big_frame_size |-> 0, batch_size |-> 0, q_levels |-> 0]
NoArgs == [frame_sizes |-> <<0, 0>>, seq_len |-> 0, num_steps |-> 0, checkpoint_every |-> 0]

----------------------------------------------------------------------------
(* Python and numpy helpers *)

Min(a, b) == IF a < b THEN a ELSE b
Max(a, b) == IF a > b THEN a ELSE b

\* a slice bound as Python normalises it for a sequence of length n
PyBound(k, n) == IF k < 0 THEN Max(k + n, 0) ELSE Min(k, n)

\* s[start:stop] of a Python sequence (0-based, negative bounds count from the end)
PySlice(s, start, stop) ==
    LET lo == PyBound(start, Len(s))
        hi == PyBound(stop, Len(s))
    IN  IF lo >= hi THEN <<>> ELSE SubSeq(s, lo + 1, hi)

\* quantize, linear law: uniform buckets over [-1, 1], silence in bucket levels // 2
quantize(a, q_levels) ==
    Min(q_levels - 1, ((a + AmpRes) * q_levels) \div (2 * AmpRes))

\* dequantize, linear law: the level's bucket back to an amplitude, levels // 2 to silence
dequantize(level, q_levels) ==
    ((2 * level + 1) * AmpRes) \div q_levels - AmpRes

\* the decoded audio of a seed file of n samples: a ramp over the amplitudes
SeedAudio(n) == [k \in 1..n |-> ((k - 1) % (2 * AmpRes + 1)) - AmpRes]

----------------------------------------------------------------------------
(* generate.py *)

\* line 61
num_samps == dur * sample_rate

\* line 60
q_zero == model.q_levels \div 2

\* the stop of range() at line 70
LoopEnd == model.big_frame_size + num_samps

\* load_seed_audio's assertion, line 113
SeedAssertOk(audio, offset, length) == offset + length <= Len(audio)

\* load_seed_audio, line 114: the excerpt (its reshape to a column keeps the length)
SeedChunk(audio, offset, length) == PySlice(audio, offset, offset + length)

\* whether numpy broadcasts a column of n values into the big_frame_size warm-up
\* positions of every batch item (line 65): equal lengths, or a single value
Broadcastable(n, length) == n = length \/ n = 1

\* the value position p (0-based) of the warm-up receives from the quantized column q
WarmUpValue(q, p) == IF Len(q) = 1 THEN q[1] ELSE q[p + 1]

\* np.zeros, line 62
ZeroBuffer == [b \in 1..model.batch_size |-> [p \in 1..LoopEnd |-> 0]]

\* lines 63-67: the buffer with its warm-up positions filled from the column q
WithWarmUp(buf, q) ==
    [b \in 1..model.batch_size |->
        [p \in 1..LoopEnd |->
            IF p <= model.big_frame_size THEN WarmUpValue(q, p - 1) ELSE buf[b][p]]]

\* the recurrent state of a freshly constructed model: every tier zero
ZeroStates == [big_frame_rnn |-> <<>>, frame_rnn |-> <<>>]

\* the input a recurrent tier absorbs: the zeros of init_data (line 130), or the
\* buffer samples that end before timestep tt (lines 72, 77)
InitData == [src |-> "init_data", at |-> 0]
FromSamples(tt) == [src |-> "samples", at |-> tt]

\* the state one recurrent tier holds after a forward step over input x from state h
TierForward(h, x) == Append(h, x)

\* model(init_data), line 131: a forward pass through every tier
ModelCall(h, x) ==
    [big_frame_rnn |-> TierForward(h.big_frame_rnn, x),
     frame_rnn |-> TierForward(h.frame_rnn, x)]

\* load_weights, line 132: the checkpoint holds parameters, not recurrent state
LoadWeights(h) == h

\* create_inference_model, lines 118-133: construct, build by a forward pass over
\* zeros, load the checkpoint
CreateInferenceModel ==
    /\ prog = "generate" /\ gpc = "create"
    /\ ghidden' = LoadWeights(ModelCall(ZeroStates, InitData))
    /\ gpc' = "setup"
    /\ UNCHANGED <<prog, model, dur, sample_rate, seed, seed_offset, samples, t,
                   big_frame_outputs, frame_outputs, generated, gtrace, files, greads, twin_agrees, tvars>>

\* lines 58-69: allocate the buffer, seed it or fill it with silence, enter the loop
Setup ==
    /\ prog = "generate" /\ gpc = "setup"
    /\ IF ~seed.given
       THEN /\ samples' = WithWarmUp(ZeroBuffer, <<q_zero>>)
            /\ gpc' = "big"
       ELSE IF ~SeedAssertOk(seed.audio, seed_offset, model.big_frame_size)
       THEN /\ gpc' = "failed"            \* AssertionError, line 113
            /\ samples' = ZeroBuffer      \* line 62 has run
       ELSE LET chunk == SeedChunk(seed.audio, seed_offset, model.big_frame_size)
                q == [k \in 1..Len(chunk) |-> quantize(chunk[k], model.q_levels)]
            IN  IF Broadcastable(Len(chunk), model.big_frame_size)
                THEN /\ samples' = WithWarmUp(ZeroBuffer, q)
                     /\ gpc' = "big"
                ELSE /\ gpc' = "failed"   \* ValueError, line 65: shapes do not broadcast
                     /\ samples' = ZeroBuffer
    /\ t' = IF gpc' = "big" THEN model.big_frame_size ELSE t
    /\ UNCHANGED <<prog, model, dur, sample_rate, seed, seed_offset,
                   big_frame_outputs, frame_outputs, generated, gtrace, files,
                   ghidden, greads, twin_agrees, tvars>>

\* line 71
BigFrameDue(tt) == tt % model.big_frame_size = 0

\* the frame tier run on the big-frame boundaries only
FrameDue_OnBigFrames(tt) == tt % model.big_frame_size = 0

\* line 76
FrameDue(tt) == tt % model.frame_size = 0

\* the slice taken without dividing t by frame_size first
BigFrameOutputIdx_NoFrameDivision(tt) ==
    tt % (model.big_frame_size \div model.frame_size)

\* lines 78-80
BigFrameOutputIdx(tt) ==
    (tt \div model.frame_size) % (model.big_frame_size \div model.frame_size)

\* line 86
FrameOutputIdx(tt) == tt % model.frame_size

\* a read of slice idx of a cache at timestep tt, for the tier it conditions
CacheRead(tier, tt, idx, cache) == [tier |-> tier, at |-> tt, idx |-> idx, cache |-> cache]

\* lines 71-75
BigFrameTier ==
    /\ prog = "generate" /\ gpc = "big"
    /\ IF BigFrameDue(t)
       THEN /\ big_frame_outputs' = t
            /\ gtrace' = Append(gtrace, <<"big_frame_rnn", t>>)
            /\ ghidden' = [ghidden EXCEPT !.big_frame_rnn = TierForward(@, FromSamples(t))]
       ELSE UNCHANGED <<big_frame_outputs, gtrace, ghidden>>
    /\ gpc' = "frame"
    /\ UNCHANGED <<prog, model, dur, sample_rate, seed, seed_offset, samples, t,
                   frame_outputs, generated, files, greads, twin_agrees, tvars>>

\* lines 76-84
FrameTier ==
    /\ prog = "generate" /\ gpc = "frame"
    /\ IF ~FrameDue(t)
       THEN /\ gpc' = "sample"
            /\ UNCHANGED <<frame_outputs, gtrace, ghidden, greads>>
       ELSE IF big_frame_outputs = Unset
       THEN /\ gpc' = "unbound"          \* UnboundLocalError, line 84
            /\ UNCHANGED <<frame_outputs, gtrace, ghidden, greads>>
       ELSE /\ greads' = Append(greads, CacheRead("frame_rnn", t, BigFrameOutputIdx(t),
                                                  big_frame_outputs))
            /\ frame_outputs' = t
            /\ gtrace' = Append(gtrace, <<"frame_rnn", t>>)
            /\ ghidden' = [ghidden EXCEPT !.frame_rnn = TierForward(@, FromSamples(t))]
            /\ gpc' = "sample"
    /\ UNCHANGED <<prog, model, dur, sample_rate, seed, seed_offset, samples, t,
                   big_frame_outputs, generated, files, twin_agrees, tvars>>

\* line 92: what tf.random.categorical may return, one level per batch item. It
\* is given no seed, generate.py sets no global seed and takes none as an
\* argument: the draw comes from the process's own generator
Categorical == [1..model.batch_size -> 0..(model.q_levels - 1)]

\* lines 85-92: the sample tier's logits are opaque, the draw is any level. A
\* second run that has agreed so far holds the same buffer and logits, and draws
\* from its own process's generator
SampleTier ==
    /\ prog = "generate" /\ gpc = "sample"
    /\ IF frame_outputs = Unset
       THEN /\ gpc' = "unbound"          \* UnboundLocalError, line 89
            /\ UNCHANGED <<generated, twin_agrees, gtrace, greads>>
       ELSE /\ greads' = Append(greads, CacheRead("sample_mlp", t, FrameOutputIdx(t),
                                                  frame_outputs))
            /\ generated' \in Categorical
            /\ \E twin \in Categorical : twin_agrees' = (twin_agrees /\ twin = generated')
            /\ gtrace' = Append(gtrace, <<"sample_mlp", t>>)
            /\ gpc' = "write"
    /\ UNCHANGED <<prog, model, dur, sample_rate, seed, seed_offset, samples, t,
                   big_frame_outputs, frame_outputs, files, ghidden, tvars>>

\* line 99, then line 70's next value of t
WriteSample ==
    /\ prog = "generate" /\ gpc = "write"
    /\ samples' = [b \in 1..model.batch_size |->
                      [samples[b] EXCEPT ![t + 1] = generated[b]]]
    /\ gtrace' = Append(gtrace, <<"write", t>>)
    /\ IF t + 1 < LoopEnd
       THEN t' = t + 1 /\ gpc' = "big"
       ELSE t' = t /\ gpc' = "save"
    /\ UNCHANGED <<prog, model, dur, sample_rate, seed, seed_offset,
                   big_frame_outputs, frame_outputs, generated, files, ghidden, greads, twin_agrees, tvars>>

\* the whole buffer handed to dequantize, warm-up included
BatchSamples_WithWarmUp(b) == samples[b]

\* line 102: the positions of batch item b handed to dequantize
BatchSamples(b) == PySlice(samples[b], model.big_frame_size, Len(samples[b]))

\* lines 100-108: one waveform per batch item
SaveFiles ==
    /\ prog = "generate" /\ gpc = "save"
    /\ files' = [b \in 1..model.batch_size |->
                    [k \in 1..Len(BatchSamples(b)) |->
                        dequantize(BatchSamples(b)[k], model.q_levels)]]
    /\ gpc' = "done"
    /\ UNCHANGED <<prog, model, dur, sample_rate, seed, seed_offset, samples, t,
                   big_frame_outputs, frame_outputs, generated, gtrace, ghidden, greads, twin_agrees, tvars>>

\* main, lines 142-147: the command line and the configuration file
InitGen ==
    /\ prog = "generate" /\ gpc = "create"
    /\ \E fs \in GenFrameSizes, bq \in BatchAndLevels :
          model = [frame_size |-> fs[1], big_frame_size |-> fs[2],
                   batch_size |-> bq[1], q_levels |-> bq[2]]
    /\ dur \in 1..MaxDur
    /\ sample_rate \in SampleRates
    /\ seed \in {NoSeed} \cup {[given |-> TRUE, audio |-> SeedAudio(n)] : n \in 0..MaxSeedLen}
    /\ seed_offset \in SeedOffsets
    /\ samples = <<>>
    /\ t = 0
    /\ big_frame_outputs = Unset /\ frame_outputs = Unset
    /\ generated = <<>>
    /\ gtrace = <<>>
    /\ files = NotWritten
    /\ ghidden = ZeroStates
    /\ greads = <<>>
    /\ twin_agrees = TRUE
    /\ tpc = "off" /\ args = NoArgs /\ dataset = <<>>
    /\ yielded = <<>> /\ ttrace = <<>> /\ saved = {}

NextGen ==
    CreateInferenceModel \/ Setup \/ BigFrameTier \/ FrameTier \/ SampleTier \/ WriteSample \/ SaveFiles

----------------------------------------------------------------------------
(* train.py *)

\* the globals train.py reads and binds nowhere: lines 58, 165-166, 179
FreeNames == {"SAMPLE_SIZE", "seq_len", "batch_size"}

\* whether reading the global name raises NameError
Unbound(name) == name \in FreeNames

\* the assertions of get_arguments, lines 80-86, in their order; a zero
\* frame_sizes[0] raises ZeroDivisionError at line 85
ArgsAccepted(a) ==
    /\ a.frame_sizes[1] < a.frame_sizes[2]
    /\ a.seq_len % a.frame_sizes[2] = 0
    /\ a.frame_sizes[1] # 0
    /\ a.frame_sizes[2] % a.frame_sizes[1] = 0

\* lines 135, 43-87: build the parser, parse and validate the arguments
GetArguments ==
    /\ prog = "train" /\ tpc = "args"
    /\ tpc' = IF Unbound("SAMPLE_SIZE") THEN "name_error"      \* line 58
              ELSE IF ArgsAccepted(args) THEN "scan" ELSE "rejected"
    /\ UNCHANGED <<prog, gvars, args, dataset, yielded, ttrace, saved>>

\* model.big_frame_size of the SampleRNN of lines 144-152
big_frame_size == args.frame_sizes[2]

\* line 158
overlap == big_frame_size

\* sequences over S of length 0..n
SeqsUpTo(S, n) == UNION {[1..k -> S] : k \in 0..n}

\* the command line of train.py and the dataset behind --data_dir
InitTrain ==
    /\ prog = "train" /\ tpc = "args"
    /\ \E f1 \in TrainFrameSizes, f2 \in TrainFrameSizes, sl \in 1..MaxSeqLen,
          ns \in NumSteps, ce \in CheckpointEverys :
          args = [frame_sizes |-> <<f1, f2>>, seq_len |-> sl, num_steps |-> ns,
                  checkpoint_every |-> ce]
    /\ dataset \in SeqsUpTo(0..MaxSamps, MaxBatches)
    /\ yielded = <<>> /\ ttrace = <<>> /\ saved = {}
    /\ gpc = "off" /\ model = NoModel /\ dur = 0 /\ sample_rate = 0 /\ seed = NoSeed
    /\ seed_offset = 0 /\ samples = <<>> /\ t = 0
    /\ big_frame_outputs = Unset /\ frame_outputs = Unset
    /\ generated = <<>> /\ gtrace = <<>> /\ files = NotWritten
    /\ ghidden = [big_frame_rnn |-> <<>>, frame_rnn |-> <<>>]
    /\ greads = <<>>
    /\ twin_agrees = TRUE

NextTrain == GetArguments

----------------------------------------------------------------------------
Init == InitGen \/ InitTrain
Next == NextGen \/ NextTrain
Spec == Init /\ [][Next]_vars
SpecGen == InitGen /\ [][NextGen]_vars
SpecTrain == InitTrain /\ [][NextTrain]_vars

----------------------------------------------------------------------------
(* Claims about the generation loop *)

\* what one timestep tt is to do: the big-frame tier on multiples of
\* big_frame_size, the frame tier on multiples of frame_size, the sample tier
\* always, then the write of position tt
TimestepEvents(tt) ==
    (IF tt % model.big_frame_size = 0 THEN << <<"big_frame_rnn", tt>> >> ELSE <<>>)
    \o (IF tt % model.frame_size = 0 THEN << <<"frame_rnn", tt>> >> ELSE <<>>)
    \o << <<"sample_mlp", tt>>, <<"write", tt>> >>

\* the events of timesteps from..to, in increasing order of timestep
RECURSIVE TimestepsEvents(_, _)
TimestepsEvents(from, to) ==
    IF from > to THEN <<>>
    ELSE TimestepsEvents(from, to - 1) \o TimestepEvents(to)

IsPrefix(a, b) == Len(a) <= Len(b) /\ SubSeq(b, 1, Len(a)) = a

InLoop == prog = "generate" /\ gpc \in {"big", "frame", "sample", "write"}
LoopOver == prog = "generate" /\ gpc \in {"save", "done"}

\* C1: the timesteps big_frame_size .. big_frame_size + dur*sample_rate - 1 are
\* visited in increasing order; at timestep t the big-frame tier runs iff
\* t mod big_frame_size = 0, the frame tier iff t mod frame_size = 0, the sample
\* tier exactly once, in the order big-frame, frame, sample, write of position t.
C1_TierSchedule ==
    /\ InLoop =>
          /\ model.big_frame_size <= t /\ t < LoopEnd
          /\ IsPrefix(TimestepsEvents(model.big_frame_size, t - 1), gtrace)
          /\ IsPrefix(gtrace, TimestepsEvents(model.big_frame_size, t))
          /\ gpc = "big" => gtrace = TimestepsEvents(model.big_frame_size, t - 1)
    /\ LoopOver =>
          gtrace = TimestepsEvents(model.big_frame_size,
                                   model.big_frame_size + dur * sample_rate - 1)

\* a finished run that met a frame boundary inside a big frame and a timestep on
\* no boundary at all
C1_Witness ==
    /\ LoopOver
    /\ \E k \in 1..Len(gtrace) :
          gtrace[k][1] = "frame_rnn" /\ gtrace[k][2] % model.big_frame_size # 0
    /\ \E k \in 1..Len(gtrace) :
          gtrace[k][1] = "sample_mlp" /\ gtrace[k][2] % model.frame_size # 0

\* how often the loop wrote position p
Writes(p) == Cardinality({k \in 1..Len(gtrace) : gtrace[k] = <<"write", p>>})

\* C6: each waveform written holds exactly dur * sample_rate samples, the
\* generated positions big_frame_size .. big_frame_size + dur*sample_rate - 1 in
\* order and no warm-up position, and each of them was written by the loop
\* exactly once before the file is written.
C6_OutputLength ==
    (prog = "generate" /\ files # NotWritten) =>
        /\ Len(files) = model.batch_size
        /\ \A b \in 1..model.batch_size :
              /\ Len(files[b]) = dur * sample_rate
              /\ \A k \in 1..Len(files[b]) :
                    files[b][k] =
                        dequantize(samples[b][model.big_frame_size + k], model.q_levels)
        /\ \A p \in 0..(model.big_frame_size + dur * sample_rate - 1) :
              Writes(p) = IF p < model.big_frame_size THEN 0 ELSE 1

\* files written for two batch items after more than one generated sample
C6_Witness ==
    /\ prog = "generate" /\ gpc = "done" /\ files # NotWritten
    /\ model.batch_size = 2 /\ dur * sample_rate >= 3
    /\ \E k \in 1..Len(files[1]) : files[1][k] # files[2][k]

\* where an excerpt "starting at offset" starts in audio of n samples, a negative
\* offset counted from the end as Python counts it
SeedStart(offset, n) == IF offset >= 0 THEN offset ELSE offset + n

\* C8: before the first timestep the warm-up positions of every batch item are
\* all q_levels // 2 (no seed) or the quantized seed samples
\* audio[seed_offset .. seed_offset + big_frame_size - 1] (seed given); for every
\* integer seed_offset seeding aborts before any sample is generated when
\* seed_offset + big_frame_size exceeds the audio length, and otherwise yields
\* exactly big_frame_size seed samples starting at seed_offset.
C8_WarmUpSeeding ==
    (prog = "generate" /\ gpc \notin {"create", "setup"}) =>
        IF ~seed.given
        THEN /\ gpc # "failed"
             /\ \A b \in 1..model.batch_size : \A p \in 1..model.big_frame_size :
                   samples[b][p] = model.q_levels \div 2
        ELSE /\ seed_offset + model.big_frame_size > Len(seed.audio) => gpc = "failed"
             /\ gpc = "failed" => gtrace = <<>>
             /\ gpc # "failed" =>
                   LET start == SeedStart(seed_offset, Len(seed.audio))
                   IN  /\ start >= 0
                       /\ start + model.big_frame_size <= Len(seed.audio)
                       /\ \A b \in 1..model.batch_size : \A p \in 1..model.big_frame_size :
                             samples[b][p] = quantize(seed.audio[start + p], model.q_levels)

\* C11: before the first tier invocation of the generation loop every tier's
\* recurrent state is the zero state: the state the model-building forward pass
\* of create_inference_model left is not carried into generation.
C11_ZeroStateAtStart ==
    (prog = "generate" /\ gpc = "big" /\ gtrace = <<>>) =>
        /\ ghidden.big_frame_rnn = <<>>
        /\ ghidden.frame_rnn = <<>>

\* C12: two runs of the generation loop with the same weights, the same warm-up,
\* the same temperature and the same random seed write identical samples: every
\* draw takes its randomness from a seedable source passed through the loop.
C12_Deterministic ==
    (prog = "generate" /\ gpc \in {"write", "big", "frame", "sample", "save", "done"}) =>
        twin_agrees

\* the latest multiple of size that is <= tt
LatestBoundary(tt, size) ==
    CHOOSE m \in 0..tt : m % size = 0 /\ \A n \in (m + 1)..tt : n % size # 0

\* C13: provided frame_size divides big_frame_size, the frame tier at timestep t
\* reads slice (t div frame_size) mod (big_frame_size div frame_size) of the
\* big-frame output cached at the latest big-frame boundary <= t, the position of
\* its frame inside the enclosing big frame, in [0, big_frame_size div frame_size);
\* the sample tier at t reads slice t mod frame_size, in [0, frame_size), of the
\* frame output cached at the latest frame boundary <= t; and no cache is read
\* before it has been computed, the first timestep included.
C13_ConditioningReads ==
    (prog = "generate" /\ model.big_frame_size % model.frame_size = 0) =>
        /\ gpc # "unbound"
        /\ \A k \in 1..Len(greads) :
              LET r == greads[k]
                  fs == model.frame_size
                  bfs == model.big_frame_size
              IN  /\ r.cache # Unset
                  /\ r.tier = "frame_rnn" =>
                        /\ r.idx = (r.at \div fs) % (bfs \div fs)
                        /\ r.cache = LatestBoundary(r.at, bfs)
                        /\ r.idx * fs = r.at - r.cache
                        /\ 0 <= r.idx /\ r.idx < bfs \div fs
                  /\ r.tier = "sample_mlp" =>
                        /\ r.idx = r.at % fs
                        /\ r.cache = LatestBoundary(r.at, fs)
                        /\ r.idx = r.at - r.cache
                        /\ 0 <= r.idx /\ r.idx < fs
        /\ \A k \in 1..Len(gtrace) :
              gtrace[k][1] \in {"frame_rnn", "sample_mlp"} =>
                  \E j \in 1..Len(greads) :
                      greads[j].tier = gtrace[k][1] /\ greads[j].at = gtrace[k][2]
        /\ gpc \in {"frame", "sample"} => big_frame_outputs # Unset
        /\ gpc \in {"write", "save", "done"} => frame_outputs # Unset

\* a finished run whose frame tier read a slice past the first of a big-frame
\* output, and whose sample tier read a slice past the first of a frame output
C13_Witness ==
    /\ prog = "generate" /\ gpc = "done"
    /\ \E k \in 1..Len(greads) :
          greads[k].tier = "frame_rnn" /\ greads[k].idx >= 1 /\ greads[k].cache < greads[k].at
    /\ \E k \in 1..Len(greads) :
          greads[k].tier = "sample_mlp" /\ greads[k].idx >= 1 /\ greads[k].cache < greads[k].at

----------------------------------------------------------------------------
(* Claims about the training loop *)

\* x is a multiple of y
IsMultiple(x, y) == \E k \in 0..x : x = k * y

\* a frame hierarchy that breaks one of the three invariants
ViolatesHierarchy(a) ==
    \/ a.frame_sizes[1] >= a.frame_sizes[2]
    \/ ~IsMultiple(a.frame_sizes[2], a.frame_sizes[1])
    \/ ~IsMultiple(a.seq_len, a.frame_sizes[2])

\* the run of train.py is over, on a command line whose hierarchy is valid
ValidRunOver == prog = "train" /\ tpc \in {"name_error", "done"} /\ ~ViolatesHierarchy(args)

\* the chunk starts of a batch of n samples: range(0, n, seq_len)
ChunkStarts(n) == {i \in 0..(n - 1) : IsMultiple(i, args.seq_len)}

\* the calls op made for the chunk of batch b that starts at i
CallsFor(op, b, i) ==
    {k \in 1..Len(ttrace) : ttrace[k].op = op /\ ttrace[k].batch = b /\ ttrace[k].start = i}

C7_ArgumentValidation ==
    prog = "train" =>
        /\ ViolatesHierarchy(args) =>
              /\ tpc \in {"args", "rejected", "name_error"}
              /\ ttrace = <<>> /\ yielded = <<>> /\ saved = {}
        /\ ~ViolatesHierarchy(args) => tpc \notin {"rejected", "name_error"}

\* the train_step calls made
StepsDone == Cardinality({k \in 1..Len(ttrace) : ttrace[k].op = "train_step"})

\* C9: on a dataset that holds num_steps chunks or more, the loop terminates
\* successfully after exactly num_steps steps.
C9_StopsAtNumSteps ==
    (ValidRunOver /\ \E b \in 1..Len(dataset) :
                        Cardinality(ChunkStarts(dataset[b])) >= args.num_steps) =>
        /\ tpc = "done"
        /\ StepsDone = args.num_steps

====
